---- MODULE Spec2Model ----
(***************************************************************************)
(* A model of native-benchmark/src/lib.rs: the call probe, the three byte  *)
(* masking kernels (scalar, SWAR, AVX2) and the three modular-add kernels  *)
(* (scalar, branchless, AVX2).  The host owns the buffers; a kernel runs   *)
(* from its entry to its return one loop iteration per step.               *)
(*                                                                         *)
(* Machine integers keep their width.  TLC's integers are 32 bits wide, so *)
(* i32 arithmetic is written so that no intermediate value leaves the i32  *)
(* range, and 64-bit values are held as four 16-bit limbs, least           *)
(* significant first.                                                      *)
(*                                                                         *)
(* build is the cargo profile the library was compiled with: "debug"       *)
(* (overflow-checks and debug-assertions on, the dev profile) or "release" *)
(* (both off).  An arithmetic overflow panics under "debug" and wraps      *)
(* under "release"; a violated precondition of an unsafe std function is   *)
(* caught by the library's debug assertion under "debug" and passes        *)
(* unnoticed under "release".  A panic inside an extern "C" function       *)
(* aborts the process.                                                     *)
(***************************************************************************)
EXTENDS Integers, Sequences, FiniteSets, TLC

VARIABLES
    build,   \* "debug" | "release"
    family,  \* the benchmark the host runs: "mask" | "poly" | "probe"
    pc,      \* "idle" (the host), a kernel's loop, "abort" (process killed)
    hist,    \* the calls that returned, oldest first
    \* ---- masking kernels
    ptr,     \* start address of the byte view (0 is null)
    len,     \* len argument (bytes, or i32 elements for modular add)
    key,     \* key argument
    mem,     \* the bytes at ptr, ptr+1, ...: the view and the memory after it
    B,       \* the host's copy of the bytes before the first call
    off,     \* the local `offset` / `i` of the running kernel
    len64,   \* local len64 of swar_process_secure_vector
    chunk,   \* position of the iterator over data64
    nx,      \* per byte: how many times the running call has read+written it
    \* ---- modular-add kernels
    a_ptr,   \* 0 is null
    b_ptr,   \* 0 is null
    q,       \* modulus argument
    a,       \* the i32 cells at a_ptr: the view and the memory after it
    b,       \* the i32 cells at b_ptr
    a0,      \* the host's copy of a before the call
    b0,      \* the host's copy of b before the call
    acc,     \* cells the running call touched: <<buffer, index, "r"|"w">>
    out,     \* per modular-add variant: "none", "abort" or the array it left in a
    \* ---- call probe
    x,       \* first i64 argument (limbs)
    y,       \* second i64 argument (limbs)
    handles, \* <<_env, _class>> of the JNI entry point
    ret      \* per probe entry point: "none", "abort" or the i64 returned

vars == <<build, family, pc, hist, ptr, len, key, mem, B, off, len64, chunk, nx,
          a_ptr, b_ptr, q, a, b, a0, b0, acc, out, x, y, handles, ret>>

maskVars == <<ptr, len, key, mem, B, off, len64, chunk, nx>>
polyVars == <<a_ptr, b_ptr, q, a, b, a0, b0, acc, out>>
probeVars == <<x, y, handles, ret>>

Builds == {"debug", "release"}
Null == 0

(***************************************************************************)
(* Bounds of the model.                                                    *)
(***************************************************************************)
\* longest byte view the host passes to a masking kernel
MaxLen == 35
\* bytes of memory modelled after the end of a byte view
GuardBytes == 32
\* calls the host makes on one byte buffer
MaxCalls == 2
\* longest i32 view the host passes to a modular-add kernel
MaxN == 9
\* i32 cells of memory modelled after the end of an i32 view
GuardElems == 8

(***************************************************************************)
(* Bit operations on non-negative integers (u8, u16 limbs).                *)
(***************************************************************************)
RECURSIVE BitXor(_, _)
BitXor(m, n) ==
    IF m = 0 THEN n
    ELSE IF n = 0 THEN m
    ELSE ((((m % 2) + (n % 2)) % 2) + (2 * BitXor(m \div 2, n \div 2)))

\* u8 ^ u8
xor_u8(v, k) == BitXor(v, k)

(***************************************************************************)
(* 64-bit words: four 16-bit limbs, least significant first.               *)
(***************************************************************************)
\* u64::from_le_bytes(bs), bs the eight bytes bs[1] (lowest) .. bs[8]
from_le_bytes(bs) == [j \in 1..4 |-> bs[(2 * j) - 1] + (256 * bs[2 * j])]

\* the eight bytes a u64 occupies in memory on x86_64 (little endian)
to_le_bytes(w) ==
    [j \in 1..8 |-> IF (j % 2) = 1 THEN w[(j + 1) \div 2] % 256
                                   ELSE w[j \div 2] \div 256]

\* u64 ^ u64
xor_u64(u, v) == [j \in 1..4 |-> BitXor(u[j], v[j])]

\* let key64 = u64::from_le_bytes([key; 8]);
key64(k) == from_le_bytes([j \in 1..8 |-> k])

\* bytes of a machine word, the alignment the SWAR kernel works to
WordBytes == 8

(***************************************************************************)
(* 256-bit vectors of bytes: 32 lanes, lane 1 at the lowest address.       *)
(***************************************************************************)
VecBytes == 32

\* key as i8
as_i8(k) == IF k >= 128 THEN k - 256 ELSE k

\* _mm256_set1_epi8(v): every lane holds the bit pattern of the i8 v
mm256_set1_epi8(v) == [l \in 1..VecBytes |-> v % 256]

\* _mm256_loadu_si256(ptr.add(i) as *mut __m256i)
mm256_loadu_epi8(m, i) == [l \in 1..VecBytes |-> m[i + l - 1]]

\* _mm256_xor_si256(u, v)
mm256_xor_si256(u, v) == [l \in 1..VecBytes |-> BitXor(u[l], v[l])]

(***************************************************************************)
(* The byte memory the host hands to a masking kernel.                     *)
(***************************************************************************)
\* non-null start addresses, one for each alignment modulo 8
Addrs == 8..15
\* the <<key, pattern>> pairs the host uses: 0x3C over zero bytes, 0xA5 over
\* mixed bytes
MaskInputs == {<<60, 0>>, <<165, 1>>}
Pattern(p, j) == IF p = 0 THEN 0 ELSE ((j * 37) + 139) % 256

Cells(n) == 0..(n + GuardBytes - 1)
Zeros(n) == [j \in Cells(n) |-> 0]

\* mem with the n bytes from index i on replaced by bs[1..n]
StoreBytes(m, i, n, bs) ==
    [j \in DOMAIN m |-> IF (j >= i) /\ (j < i + n) THEN bs[j - i + 1] ELSE m[j]]

\* nx with the n bytes from index i on touched once more
Touch(t, i, n) ==
    [j \in DOMAIN t |-> IF (j >= i) /\ (j < i + n) THEN t[j] + 1 ELSE t[j]]

MaskVariants == {"process_secure_vector", "swar_process_secure_vector",
                 "process_vector_avx2"}

InitMask ==
    /\ build \in Builds
    /\ family = "mask"
    /\ pc = "idle"
    /\ hist = << >>
    /\ ptr \in {Null} \cup Addrs
    /\ len \in 0..MaxLen
    /\ \E kp \in MaskInputs :
          /\ key = kp[1]
          /\ mem = IF ptr = Null THEN << >>
                   ELSE [j \in Cells(len) |-> Pattern(kp[2], j)]
    /\ B = mem
    /\ off = 0 /\ len64 = 0 /\ chunk = 0
    /\ nx = IF ptr = Null THEN << >> ELSE Zeros(len)
    /\ a_ptr = Null /\ b_ptr = Null /\ q = 0
    /\ a = << >> /\ b = << >> /\ a0 = << >> /\ b0 = << >>
    /\ acc = {} /\ out = << >>
    /\ x = << >> /\ y = << >> /\ handles = << >> /\ ret = << >>

\* if ptr.is_null() { return; }
is_null(p) == p = Null

\* the host may call a masking kernel
MaskIdle == (family = "mask") /\ (pc = "idle") /\ (Len(hist) < MaxCalls)

\* return to the host: the locals die
MaskReturn(name) ==
    /\ pc' = "idle"
    /\ hist' = Append(hist, name)
    /\ off' = 0 /\ len64' = 0 /\ chunk' = 0

\* *ptr.add(i) ^= key
XorByte(i) ==
    /\ mem' = [mem EXCEPT ![i] = xor_u8(mem[i], key)]
    /\ nx' = Touch(nx, i, 1)

MaskFrame == UNCHANGED <<build, family, ptr, len, key, B, polyVars, probeVars>>

(***************************************************************************)
(* process_secure_vector                                                   *)
(***************************************************************************)
psv_entry ==
    /\ MaskIdle
    /\ IF is_null(ptr)
       THEN MaskReturn("process_secure_vector") /\ UNCHANGED <<mem, nx>>
       ELSE /\ pc' = "psv_loop"
            /\ off' = 0
            /\ nx' = Zeros(len)
            /\ UNCHANGED <<hist, mem, len64, chunk>>
    /\ MaskFrame

\* for byte in data.iter_mut() { *byte ^= key; }
psv_iter ==
    /\ pc = "psv_loop"
    /\ off < len
    /\ XorByte(off)
    /\ off' = off + 1
    /\ UNCHANGED <<pc, hist, len64, chunk>>
    /\ MaskFrame

psv_return ==
    /\ pc = "psv_loop"
    /\ ~(off < len)
    /\ MaskReturn("process_secure_vector")
    /\ UNCHANGED <<mem, nx>>
    /\ MaskFrame

(***************************************************************************)
(* swar_process_secure_vector                                              *)
(***************************************************************************)
swar_entry ==
    /\ MaskIdle
    /\ IF is_null(ptr)
       THEN MaskReturn("swar_process_secure_vector") /\ UNCHANGED <<mem, nx>>
       ELSE /\ pc' = "swar_head"
            /\ off' = 0
            /\ nx' = Zeros(len)
            /\ UNCHANGED <<hist, mem, len64, chunk>>
    /\ MaskFrame

\* (ptr.add(offset) as usize) % 8 != 0 && offset < len
swar_head_cond(p, o, l) == (((p + o) % WordBytes) # 0) /\ (o < l)

swar_head ==
    /\ pc = "swar_head"
    /\ swar_head_cond(ptr, off, len)
    /\ XorByte(off)
    /\ off' = off + 1
    /\ UNCHANGED <<pc, hist, len64, chunk>>
    /\ MaskFrame

\* a faulty len64 that forgets the bytes the head loop consumed
swar_len64_whole(l, o) == l \div WordBytes

\* let len64 = (len - offset) / 8;
swar_len64(l, o) == (l - o) \div WordBytes

\* slice::from_raw_parts_mut::<u64>(data, n) requires data to be aligned to 8
\* and non-null, for a slice of length 0 too
from_raw_parts_mut_u64_ok(data) == (data # Null) /\ ((data % WordBytes) = 0)

\* let ptr64 = ptr.add(offset) as *mut u64;  let len64 = ...;
\* let data64 = slice::from_raw_parts_mut(ptr64, len64);
\* A misaligned ptr64 is undefined behaviour: the debug build's precondition
\* check aborts the process, the release build goes on with the slice.
swar_words_setup ==
    /\ pc = "swar_head"
    /\ ~swar_head_cond(ptr, off, len)
    /\ len64' = swar_len64(len, off)
    /\ chunk' = 0
    /\ pc' = IF from_raw_parts_mut_u64_ok(ptr + off) \/ (build = "release")
             THEN "swar_words" ELSE "abort"
    /\ UNCHANGED <<hist, mem, nx, off>>
    /\ MaskFrame

\* for chunk in data64.iter_mut() { *chunk ^= key64; }
swar_chunk ==
    /\ pc = "swar_words"
    /\ chunk < len64
    /\ LET i == off + (WordBytes * chunk)
           w == from_le_bytes([j \in 1..WordBytes |-> mem[i + j - 1]])
       IN  /\ mem' = StoreBytes(mem, i, WordBytes, to_le_bytes(xor_u64(w, key64(key))))
           /\ nx' = Touch(nx, i, WordBytes)
    /\ chunk' = chunk + 1
    /\ UNCHANGED <<pc, hist, off, len64>>
    /\ MaskFrame

\* offset += len64 * 8;
swar_words_done ==
    /\ pc = "swar_words"
    /\ ~(chunk < len64)
    /\ off' = off + (len64 * WordBytes)
    /\ pc' = "swar_tail"
    /\ UNCHANGED <<hist, mem, nx, len64, chunk>>
    /\ MaskFrame

\* while offset < len { *ptr.add(offset) ^= key; offset += 1; }
swar_tail ==
    /\ pc = "swar_tail"
    /\ off < len
    /\ XorByte(off)
    /\ off' = off + 1
    /\ UNCHANGED <<pc, hist, len64, chunk>>
    /\ MaskFrame

swar_return ==
    /\ pc = "swar_tail"
    /\ ~(off < len)
    /\ MaskReturn("swar_process_secure_vector")
    /\ UNCHANGED <<mem, nx>>
    /\ MaskFrame

(***************************************************************************)
(* process_vector_avx2                                                     *)
(***************************************************************************)
avx2_entry ==
    /\ MaskIdle
    /\ IF is_null(ptr)
       THEN MaskReturn("process_vector_avx2") /\ UNCHANGED <<mem, nx>>
       ELSE /\ pc' = "avx2_blocks"
            /\ off' = 0
            /\ nx' = Zeros(len)
            /\ UNCHANGED <<hist, mem, len64, chunk>>
    /\ MaskFrame

\* let key_vec = _mm256_set1_epi8(key as i8);
key_vec(k) == mm256_set1_epi8(as_i8(k))

\* a faulty loop condition that starts a block whenever a byte is left
avx2_block_cond_any(i, l) == i < l

\* while i + 32 <= len
avx2_block_cond(i, l) == i + VecBytes <= l

avx2_block ==
    /\ pc = "avx2_blocks"
    /\ avx2_block_cond(off, len)
    /\ LET data == mm256_loadu_epi8(mem, off)
           xored == mm256_xor_si256(data, key_vec(key))
       IN  /\ mem' = StoreBytes(mem, off, VecBytes, xored)
           /\ nx' = Touch(nx, off, VecBytes)
    /\ off' = off + VecBytes
    /\ UNCHANGED <<pc, hist, len64, chunk>>
    /\ MaskFrame

avx2_blocks_done ==
    /\ pc = "avx2_blocks"
    /\ ~avx2_block_cond(off, len)
    /\ pc' = "avx2_tail"
    /\ UNCHANGED <<hist, mem, nx, off, len64, chunk>>
    /\ MaskFrame

\* while i < len { *ptr.add(i) ^= key; i += 1; }
avx2_tail ==
    /\ pc = "avx2_tail"
    /\ off < len
    /\ XorByte(off)
    /\ off' = off + 1
    /\ UNCHANGED <<pc, hist, len64, chunk>>
    /\ MaskFrame

avx2_return ==
    /\ pc = "avx2_tail"
    /\ ~(off < len)
    /\ MaskReturn("process_vector_avx2")
    /\ UNCHANGED <<mem, nx>>
    /\ MaskFrame

NextMask ==
    \/ psv_entry \/ psv_iter \/ psv_return
    \/ swar_entry \/ swar_head \/ swar_words_setup \/ swar_chunk
    \/ swar_words_done \/ swar_tail \/ swar_return
    \/ avx2_entry \/ avx2_block \/ avx2_blocks_done \/ avx2_tail \/ avx2_return

SpecMask == InitMask /\ [][NextMask]_vars

(***************************************************************************)
(* i32 arithmetic.  No intermediate value leaves the i32 range.            *)
(***************************************************************************)
MaxI32 == 2147483647
MinI32 == (-MaxI32) - 1

\* x + y does not fit an i32
add_overflows(u, v) ==
    \/ (u > 0) /\ (v > 0) /\ (u > MaxI32 - v)
    \/ (u < 0) /\ (v < 0) /\ (u < MinI32 - v)

\* x.wrapping_add(y): the sum modulo 2^32 as an i32
wrapping_add(u, v) ==
    IF (u > 0) /\ (v > 0) /\ (u > MaxI32 - v) THEN (u + MinI32) + (v + MinI32)
    ELSE IF (u < 0) /\ (v < 0) /\ (u < MinI32 - v) THEN (u - MinI32) + (v - MinI32)
    ELSE u + v

\* x - y does not fit an i32
sub_overflows(u, v) ==
    \/ (u >= 0) /\ (v < 0) /\ (u > MaxI32 + v)
    \/ (u < 0) /\ (v > 0) /\ (u < MinI32 + v)

\* x.wrapping_sub(y)
wrapping_sub(u, v) ==
    IF (u >= 0) /\ (v < 0) /\ (u > MaxI32 + v) THEN (u + MinI32) - (v - MinI32)
    ELSE IF (u < 0) /\ (v > 0) /\ (u < MinI32 + v) THEN (u - MinI32) - (v + MinI32)
    ELSE u - v

\* bitwise AND of two i32 in two's complement
RECURSIVE BitAnd(_, _)
BitAnd(u, v) ==
    IF (u = 0) \/ (v = 0) THEN 0
    ELSE IF u = -1 THEN v
    ELSE IF v = -1 THEN u
    ELSE ((u % 2) * (v % 2)) + (2 * BitAnd(u \div 2, v \div 2))

\* (c) as i32 for a bool c
bool_as_i32(c) == IF c THEN 1 ELSE 0

(***************************************************************************)
(* 256-bit vectors of i32: 8 lanes, lane 1 at the lowest address.          *)
(***************************************************************************)
Lanes == 8

mm256_set1_epi32(v) == [l \in 1..Lanes |-> v]
mm256_loadu_epi32(m, i) == [l \in 1..Lanes |-> m[i + l - 1]]
mm256_add_epi32(u, v) == [l \in 1..Lanes |-> wrapping_add(u[l], v[l])]
mm256_sub_epi32(u, v) == [l \in 1..Lanes |-> wrapping_sub(u[l], v[l])]
\* signed compare: all ones where u > v, zero elsewhere
mm256_cmpgt_epi32(u, v) == [l \in 1..Lanes |-> IF u[l] > v[l] THEN -1 ELSE 0]
mm256_and_si256(u, v) == [l \in 1..Lanes |-> BitAnd(u[l], v[l])]

(***************************************************************************)
(* The i32 memory the host hands to a modular-add kernel.                  *)
(***************************************************************************)
PolyVariants == {"poly_modular_add", "bless_poly_modular_add", "poly_add_avx2"}

\* moduli: the spec's test moduli, and two above 2^30
Qs == {1, 2, 97, 65536, 1073741824, 1073741825, MaxI32}
\* arguments with no meaning as a modulus, passed along a null pointer
BadQs == {0, -5, MinI32}
PolyPats == 0..3
\* non-null, 4-aligned, far apart
AAddr == 16 * 4
BAddr == 256 * 4

\* four reduced values for modulus m: 0, m-1, m/2 and m - m/2
Val(m, sel) ==
    IF sel = 0 THEN 0
    ELSE IF sel = 1 THEN m - 1
    ELSE IF sel = 2 THEN m \div 2
    ELSE IF m - (m \div 2) < m THEN m - (m \div 2) ELSE 0

ECells(n) == 0..(n + GuardElems - 1)
\* the memory after a view holds other data of the host
PatA(m, p, n) == [j \in ECells(n) |-> IF j < n THEN Val(m, (j + p) % 4) ELSE -7]
PatB(m, p, n) == [j \in ECells(n) |-> IF j < n THEN Val(m, ((j \div 4) + p) % 4) ELSE -9]

\* spec section 8: a=[5,10,95], b=[3,90,5], q=97
ScenarioA == [j \in ECells(3) |-> IF j = 0 THEN 5 ELSE IF j = 1 THEN 10
                                  ELSE IF j = 2 THEN 95 ELSE -7]
ScenarioB == [j \in ECells(3) |-> IF j = 0 THEN 3 ELSE IF j = 1 THEN 90
                                  ELSE IF j = 2 THEN 5 ELSE -9]

NoOut == [v \in PolyVariants |-> [st |-> "none", arr |-> << >>]]

\* the first n cells of m
View(m, n) == [j \in 0..(n - 1) |-> m[j]]

InitPolyCommon ==
    /\ build \in Builds
    /\ family = "poly"
    /\ pc = "idle"
    /\ hist = << >>
    /\ ptr = Null /\ key = 0 /\ mem = << >> /\ B = << >>
    /\ off = 0 /\ len64 = 0 /\ chunk = 0 /\ nx = << >>
    /\ a0 = a /\ b0 = b
    /\ acc = {} /\ out = NoOut
    /\ x = << >> /\ y = << >> /\ handles = << >> /\ ret = << >>

\* both views valid: q > 0 and every element reduced
InitPolyValid ==
    /\ a_ptr = AAddr /\ b_ptr = BAddr
    /\ \/ /\ len \in 0..MaxN
          /\ q \in Qs
          /\ \E p \in PolyPats : (a = PatA(q, p, len)) /\ (b = PatB(q, p, len))
       \/ (len = 3) /\ (q = 97) /\ (a = ScenarioA) /\ (b = ScenarioB)

\* a null pointer, with any len and q
InitPolyNull ==
    /\ len \in 0..MaxN
    /\ q \in Qs \cup BadQs
    /\ \E ps \in {<<Null, Null>>, <<Null, BAddr>>, <<AAddr, Null>>} :
          (a_ptr = ps[1]) /\ (b_ptr = ps[2])
    /\ a = IF a_ptr = Null THEN << >> ELSE PatA(97, 0, len)
    /\ b = IF b_ptr = Null THEN << >> ELSE PatB(97, 0, len)

InitPoly == (InitPolyValid \/ InitPolyNull) /\ InitPolyCommon

(***************************************************************************)
(* The element step of each kernel: [panic, val].  Rust's + and - panic on *)
(* overflow in the debug build and wrap in the release build.              *)
(***************************************************************************)
Checked(bld, ovf, v) == [panic |-> (bld = "debug") /\ ovf, val |-> v]

\* a + b, a - b
i32_add(bld, u, v) == Checked(bld, add_overflows(u, v), wrapping_add(u, v))
i32_sub(bld, u, v) == Checked(bld, sub_overflows(u, v), wrapping_sub(u, v))

\* a faulty scalar body that reduces only when sum > q
mod_add_scalar_gt(bld, av, bv, m) ==
    LET sum == i32_add(bld, av, bv)
    IN  IF sum.panic THEN sum
        ELSE IF sum.val > m THEN i32_sub(bld, sum.val, m)
        ELSE sum

\* let sum = a[i] + b[i];  a[i] = if sum >= q { sum - q } else { sum };
mod_add_scalar(bld, av, bv, m) ==
    LET sum == i32_add(bld, av, bv)
    IN  IF sum.panic THEN sum
        ELSE IF sum.val >= m THEN i32_sub(bld, sum.val, m)
        ELSE sum

\* let sub = (sum >= q) as i32 * q;
bless_sub(sum, m) == bool_as_i32(sum >= m) * m

\* let sum = a[i] + b[i];  let sub = ...;  a[i] = sum - sub;
mod_add_bless(bld, av, bv, m) ==
    LET sum == i32_add(bld, av, bv)
    IN  IF sum.panic THEN sum
        ELSE i32_sub(bld, sum.val, bless_sub(sum.val, m))

\* let sub = _mm256_and_si256(q_vec, mask), mask = cmpgt(sum, q_minus_1)
avx2_sub(sum, q_vec, q_minus_1) ==
    mm256_and_si256(q_vec, mm256_cmpgt_epi32(sum, q_minus_1))

\* the vector body: sum, mask, sub, res
mod_add_avx2(a_val, b_val, m, q_minus_1) ==
    LET sum == mm256_add_epi32(a_val, b_val)
        sub == avx2_sub(sum, mm256_set1_epi32(m), mm256_set1_epi32(q_minus_1))
    IN  mm256_sub_epi32(sum, sub)

(***************************************************************************)
(* Calls of the modular-add kernels.  The host gives each variant an equal *)
(* copy of (a, b, len, q) and keeps what the variant left in a.            *)
(***************************************************************************)
\* a faulty null check that returns only when both pointers are null
both_are_null(ap, bp) == is_null(ap) /\ is_null(bp)

\* a_ptr.is_null() || b_ptr.is_null()
either_is_null(ap, bp) == is_null(ap) \/ is_null(bp)

PolyIdle(name) == (family = "poly") /\ (pc = "idle") /\ (out[name].st = "none")

PolyFrame == UNCHANGED <<build, family, hist, len, a_ptr, b_ptr, q, a0, b0,
                         ptr, key, mem, B, len64, chunk, nx, probeVars>>

\* if a_ptr.is_null() || b_ptr.is_null() { return; }
PolyEntry(name, loop) ==
    /\ PolyIdle(name)
    /\ IF either_is_null(a_ptr, b_ptr)
       THEN /\ out' = [out EXCEPT ![name] =
                          [st |-> "done",
                           arr |-> IF a_ptr = Null THEN << >> ELSE View(a, len)]]
            /\ UNCHANGED <<pc, a, off>>
       ELSE /\ pc' = loop
            /\ a' = a0
            /\ off' = 0
            /\ UNCHANGED out
    /\ acc' = {}
    /\ UNCHANGED b
    /\ PolyFrame

PolyReturn(name) ==
    /\ pc' = "idle"
    /\ off' = 0
    /\ out' = [out EXCEPT ![name] = [st |-> "done", arr |-> View(a, len)]]
    /\ UNCHANGED <<a, b, acc>>
    /\ PolyFrame

\* one element through a scalar body: read a[i] and b[i], write a[i] or panic
PolyElem(name, r) ==
    /\ IF r.panic
       THEN /\ pc' = "abort"
            /\ out' = [out EXCEPT ![name] = [st |-> "abort", arr |-> << >>]]
            /\ acc' = acc \cup {<<"a", off, "r">>, <<"b", off, "r">>}
            /\ UNCHANGED <<a, off>>
       ELSE /\ a' = [a EXCEPT ![off] = r.val]
            /\ acc' = acc \cup {<<"a", off, "r">>, <<"b", off, "r">>, <<"a", off, "w">>}
            /\ off' = off + 1
            /\ UNCHANGED <<pc, out>>
    /\ UNCHANGED b
    /\ PolyFrame

(***************************************************************************)
(* poly_modular_add                                                        *)
(***************************************************************************)
pma_entry == PolyEntry("poly_modular_add", "pma_loop")

\* for i in 0..len
pma_iter ==
    /\ pc = "pma_loop"
    /\ off < len
    /\ PolyElem("poly_modular_add", mod_add_scalar(build, a[off], b[off], q))

pma_return ==
    /\ pc = "pma_loop"
    /\ ~(off < len)
    /\ PolyReturn("poly_modular_add")

(***************************************************************************)
(* bless_poly_modular_add                                                  *)
(***************************************************************************)
bless_entry == PolyEntry("bless_poly_modular_add", "bless_loop")

bless_iter ==
    /\ pc = "bless_loop"
    /\ off < len
    /\ PolyElem("bless_poly_modular_add", mod_add_bless(build, a[off], b[off], q))

bless_return ==
    /\ pc = "bless_loop"
    /\ ~(off < len)
    /\ PolyReturn("bless_poly_modular_add")

(***************************************************************************)
(* poly_add_avx2                                                           *)
(***************************************************************************)
padd_entry == PolyEntry("poly_add_avx2", "padd_blocks")

\* while i + 8 <= len
padd_block_cond(i, l) == i + Lanes <= l

\* cells i .. i+7 of buffer name, with access kind k
BlockAcc(name, i, k) == {<<name, j, k>> : j \in i..(i + Lanes - 1)}

padd_block ==
    /\ pc = "padd_blocks"
    /\ padd_block_cond(off, len)
    /\ LET a_val == mm256_loadu_epi32(a, off)
           b_val == mm256_loadu_epi32(b, off)
           qm1 == i32_sub(build, q, 1)
       IN  IF qm1.panic
           THEN /\ pc' = "abort"
                /\ out' = [out EXCEPT !["poly_add_avx2"] =
                              [st |-> "abort", arr |-> << >>]]
                /\ acc' = acc \cup BlockAcc("a", off, "r") \cup BlockAcc("b", off, "r")
                /\ UNCHANGED <<a, off>>
           ELSE /\ LET res == mod_add_avx2(a_val, b_val, q, qm1.val)
                   IN  a' = [j \in DOMAIN a |->
                                IF (j >= off) /\ (j < off + Lanes)
                                THEN res[j - off + 1] ELSE a[j]]
                /\ acc' = acc \cup BlockAcc("a", off, "r") \cup BlockAcc("b", off, "r")
                              \cup BlockAcc("a", off, "w")
                /\ off' = off + Lanes
                /\ UNCHANGED <<pc, out>>
    /\ UNCHANGED b
    /\ PolyFrame

padd_blocks_done ==
    /\ pc = "padd_blocks"
    /\ ~padd_block_cond(off, len)
    /\ pc' = "padd_tail"
    /\ UNCHANGED <<a, b, off, acc, out>>
    /\ PolyFrame

\* while i < len { ... scalar body ... i += 1; }
padd_tail ==
    /\ pc = "padd_tail"
    /\ off < len
    /\ PolyElem("poly_add_avx2", mod_add_scalar(build, a[off], b[off], q))

padd_return ==
    /\ pc = "padd_tail"
    /\ ~(off < len)
    /\ PolyReturn("poly_add_avx2")

NextPoly ==
    \/ pma_entry \/ pma_iter \/ pma_return
    \/ bless_entry \/ bless_iter \/ bless_return
    \/ padd_entry \/ padd_block \/ padd_blocks_done \/ padd_tail \/ padd_return

SpecPoly == InitPoly /\ [][NextPoly]_vars

(***************************************************************************)
(* i64 arithmetic on limbs: u[1] is the least significant 16 bits, u[4]    *)
(* holds the sign bit.                                                     *)
(***************************************************************************)
LimbBase == 65536
I64Limbs == 4

\* the carry into limb j of u + v
RECURSIVE Carry(_, _, _)
Carry(u, v, j) ==
    IF j = 1 THEN 0 ELSE (u[j - 1] + v[j - 1] + Carry(u, v, j - 1)) \div LimbBase

\* the n low limbs of u + v
AddLimbs(u, v, n) == [j \in 1..n |-> (u[j] + v[j] + Carry(u, v, j)) % LimbBase]

\* the sign bit of an i64
is_negative(u) == u[I64Limbs] >= (LimbBase \div 2)

\* a.wrapping_add(b) for i64
wrapping_add_i64(u, v) == AddLimbs(u, v, I64Limbs)

\* a + b does not fit an i64: the operands agree in sign and the result does not
add_overflows_i64(u, v) ==
    (is_negative(u) = is_negative(v))
        /\ (is_negative(wrapping_add_i64(u, v)) # is_negative(u))

\* a + b for i64: panics on overflow in the debug build, wraps in the release build
i64_add(bld, u, v) == Checked(bld, add_overflows_i64(u, v), wrapping_add_i64(u, v))

(***************************************************************************)
(* The call probe.                                                         *)
(***************************************************************************)
ProbeEntries == {"bench_add_numbers", "jni_add_numbers_impl"}

\* 0, 1, 2, -1, -2, 65535, 2^32, -2^32, 2^62, -2^62, MAX-1, MAX, MIN+1, MIN
I64Vals ==
    { <<0, 0, 0, 0>>, <<1, 0, 0, 0>>, <<2, 0, 0, 0>>,
      <<65535, 65535, 65535, 65535>>, <<65534, 65535, 65535, 65535>>,
      <<65535, 0, 0, 0>>, <<0, 0, 1, 0>>, <<0, 0, 65535, 65535>>,
      <<0, 0, 0, 16384>>, <<0, 0, 0, 49152>>,
      <<65534, 65535, 65535, 32767>>, <<65535, 65535, 65535, 32767>>,
      <<1, 0, 0, 32768>>, <<0, 0, 0, 32768>> }

\* <<_env, _class>>: opaque handles of the managed runtime
Handles == {<<1, 1>>, <<1, 2>>, <<2, 1>>}

NoRet == [e \in ProbeEntries |-> [st |-> "none", val |-> << >>]]

InitProbe ==
    /\ build \in Builds
    /\ family = "probe"
    /\ pc = "idle"
    /\ hist = << >>
    /\ ptr = Null /\ len = 0 /\ key = 0 /\ mem = << >> /\ B = << >>
    /\ off = 0 /\ len64 = 0 /\ chunk = 0 /\ nx = << >>
    /\ a_ptr = Null /\ b_ptr = Null /\ q = 0
    /\ a = << >> /\ b = << >> /\ a0 = << >> /\ b0 = << >>
    /\ acc = {} /\ out = << >>
    /\ x \in I64Vals /\ y \in I64Vals
    /\ handles \in Handles
    /\ ret = NoRet

ProbeFrame == UNCHANGED <<build, family, hist, maskVars, polyVars, x, y, handles>>

\* the body of both entry points: a + b
ProbeCall(name, r) ==
    /\ family = "probe"
    /\ pc = "idle"
    /\ ret[name].st = "none"
    /\ IF r.panic
       THEN /\ pc' = "abort"
            /\ ret' = [ret EXCEPT ![name] = [st |-> "abort", val |-> << >>]]
       ELSE /\ pc' = "idle"
            /\ ret' = [ret EXCEPT ![name] = [st |-> "done", val |-> r.val]]
    /\ ProbeFrame

\* pub extern "C" fn bench_add_numbers(a: i64, b: i64) -> i64 { a + b }
bench_add_numbers == ProbeCall("bench_add_numbers", i64_add(build, x, y))

\* a faulty JNI entry point that adds its first argument twice
jni_add_numbers_twice == ProbeCall("jni_add_numbers_impl", i64_add(build, x, x))

\* pub extern "C" fn jni_add_numbers_impl(_env, _class, a: jlong, b: jlong) -> jlong
\* { a + b }: the handles are not read
jni_add_numbers_impl == ProbeCall("jni_add_numbers_impl", i64_add(build, x, y))

NextProbe == bench_add_numbers \/ jni_add_numbers_impl

SpecProbe == InitProbe /\ [][NextProbe]_vars

(***************************************************************************)
(* The whole library: the host runs one benchmark family against it.       *)
(***************************************************************************)
Init == InitMask \/ InitPoly \/ InitProbe

Next == NextMask \/ NextPoly \/ NextProbe

Spec == Init /\ [][Next]_vars

(***************************************************************************)
(* Expected values, computed apart from the kernels.                       *)
(***************************************************************************)
\* m with its first n bytes XORed with k
Xored(m, k, n) == [j \in DOMAIN m |-> IF j < n THEN BitXor(m[j], k) ELSE m[j]]

\* (u + v) mod m for u, v in [0, m), with no intermediate above m
ModSum(u, v, m) == IF u >= m - v THEN u - (m - v) ELSE u + v

\* the moduli of the spec's correctness property
SpecQs == {1, 2, 97, 65536, 1073741824}

PolyNonNull == (family = "poly") /\ (a_ptr # Null) /\ (b_ptr # Null)
MaskNonNull == (family = "mask") /\ (ptr # Null)

\* an i64 widened to five limbs
SignExt(u) ==
    [j \in 1..(I64Limbs + 1) |->
        IF j <= I64Limbs THEN u[j] ELSE IF is_negative(u) THEN LimbBase - 1 ELSE 0]

\* the mathematical sum x + y, exact in five limbs
MathSum == AddLimbs(SignExt(x), SignExt(y), I64Limbs + 1)

\* the mathematical sum lies in the signed 64-bit range
SumFits == MathSum = SignExt([j \in 1..I64Limbs |-> MathSum[j]])

\* the last call that returned
LastCall == IF hist = << >> THEN "none" ELSE hist[Len(hist)]

(***************************************************************************)
(* C1: for q in {1, 2, 97, 2^16, 2^30} and reduced operands, every         *)
(* modular-add variant returns and leaves (old a[i] + b[i]) mod q, a value *)
(* of [0, q), in every a[i]; a=[5,10,95], b=[3,90,5], q=97 gives [8,3,3].  *)
(***************************************************************************)
C1_ModAddCorrect ==
    (PolyNonNull /\ (q \in SpecQs)) =>
        /\ pc # "abort"
        /\ \A v \in PolyVariants :
              /\ out[v].st # "abort"
              /\ (out[v].st = "done") =>
                    /\ \A j \in 0..(len - 1) :
                          /\ out[v].arr[j] = (a0[j] + b0[j]) % q
                          /\ (0 <= out[v].arr[j]) /\ (out[v].arr[j] < q)
                    /\ ((a0 = ScenarioA) /\ (b0 = ScenarioB)) =>
                          (out[v].arr = [j \in 0..2 |-> IF j = 0 THEN 8 ELSE 3])

\* all three variants returned for q = 2^30 and nine elements, the last of
\* which (the vector kernel's scalar tail) needed the subtraction
C1_Witness ==
    /\ PolyNonNull /\ (q = 1073741824) /\ (len = 9)
    /\ \A v \in PolyVariants : out[v].st = "done"
    /\ a0[8] >= q - b0[8]
    /\ \E j \in 0..7 : a0[j] >= q - b0[j]

(***************************************************************************)
(* C2: for every modulus 0 < q <= 2^31-1 and reduced operands, the 32-bit  *)
(* sum is below 2q and every variant stores (a[i] + b[i]) mod q, a value   *)
(* of [0, q): no overflow or wrap-around changes the result.               *)
(***************************************************************************)
C2_PreconditionSuffices ==
    PolyNonNull =>
        /\ pc # "abort"
        /\ \A v \in PolyVariants :
              (out[v].st = "done") =>
                  \A j \in 0..(len - 1) :
                      /\ out[v].arr[j] = ModSum(a0[j], b0[j], q)
                      /\ (0 <= out[v].arr[j]) /\ (out[v].arr[j] < q)

(***************************************************************************)
(* C3: for every q > 0 and reduced operands the three modular-add variants *)
(* leave identical arrays, and the branchless and the vector subtrahend    *)
(* equal the scalar kernel's conditional subtrahend for every element.     *)
(***************************************************************************)
C3_VariantsAgree ==
    PolyNonNull =>
        /\ \A v \in PolyVariants : out[v].st # "abort"
        /\ \A v, w \in PolyVariants :
              ((out[v].st = "done") /\ (out[w].st = "done")) => (out[v].arr = out[w].arr)
        /\ \A j \in 0..(len - 1) :
              LET sum == wrapping_add(a0[j], b0[j])
                  cond == IF sum >= q THEN q ELSE 0
              IN  /\ bless_sub(sum, q) = cond
                  /\ BitAnd(q, IF sum > q - 1 THEN -1 ELSE 0) = cond

(***************************************************************************)
(* C4: for every buffer, length, start alignment and key, each masking     *)
(* variant applied to a copy of B returns with B[i] XOR k at every index   *)
(* below len, so the three outputs are byte-identical.                     *)
(***************************************************************************)
C4_MaskVariantsAgree ==
    MaskNonNull =>
        /\ pc # "abort"
        /\ ((pc = "idle") /\ (Len(hist) = 1)) => (mem = Xored(B, key, len))

(***************************************************************************)
(* C5: for every buffer, length, start alignment and key, two masking      *)
(* calls in a row with the same key, by the same or by two different       *)
(* variants, restore B exactly.                                            *)
(***************************************************************************)
C5_MaskInvolution ==
    MaskNonNull =>
        /\ pc # "abort"
        /\ ((pc = "idle") /\ (Len(hist) = 2)) => (mem = B)

\* what does hold of the masking kernels: a call that returns has XORed the
\* view, and a second one that returns has restored it
MaskPartialCorrectness ==
    (MaskNonNull /\ (pc = "idle")) =>
        /\ (Len(hist) = 1) => (mem = Xored(B, key, len))
        /\ (Len(hist) = 2) => (mem = B)

(***************************************************************************)
(* C6: a masking call with a null pointer, and a modular-add call with     *)
(* a_ptr or b_ptr null, returns at once for every len, key and q: no loop  *)
(* is entered, no cell is read or written, a is left as it was.            *)
(***************************************************************************)
C6_NullSafety ==
    /\ ((family = "mask") /\ (ptr = Null)) =>
          /\ pc = "idle"
          /\ (mem = B) /\ (nx = << >>) /\ (off = 0)
    /\ ((family = "poly") /\ ((a_ptr = Null) \/ (b_ptr = Null))) =>
          /\ pc = "idle"
          /\ (a = a0) /\ (b = b0) /\ (acc = {}) /\ (off = 0)
          /\ \A v \in PolyVariants :
                /\ out[v].st \in {"none", "done"}
                /\ (out[v].st = "done") =>
                      (out[v].arr = IF a_ptr = Null THEN << >> ELSE View(a0, len))

\* only b_ptr is null, len = 9, q is negative, and all three variants returned
C6_Witness ==
    /\ (family = "poly") /\ (a_ptr # Null) /\ (b_ptr = Null)
    /\ (len = 9) /\ (q < 0)
    /\ \A v \in PolyVariants : out[v].st = "done"

(***************************************************************************)
(* C7: for every pair of i64, sums outside the i64 range included, both    *)
(* probe entry points return the sum and never abort, and the JNI entry    *)
(* point returns what bench_add_numbers returns.                           *)
(***************************************************************************)
C7_ProbeTotal ==
    (family = "probe") =>
        /\ \A e \in ProbeEntries :
              /\ ret[e].st # "abort"
              /\ (ret[e].st = "done") => (SignExt(ret[e].val) = MathSum)
        /\ \A e, f \in ProbeEntries :
              ((ret[e].st = "done") /\ (ret[f].st = "done")) => (ret[e].val = ret[f].val)

(***************************************************************************)
(* C7 as amended: when the mathematical sum lies in the i64 range both     *)
(* entry points return it and never abort; when it does not, a call aborts *)
(* in the debug build and returns the sum modulo 2^64 in the release       *)
(* build; the two entry points return equal values.                        *)
(***************************************************************************)
C7_ProbeInRange ==
    (family = "probe") =>
        /\ \A e \in ProbeEntries :
              /\ SumFits =>
                    /\ ret[e].st # "abort"
                    /\ (ret[e].st = "done") => (SignExt(ret[e].val) = MathSum)
              /\ (~SumFits) =>
                    /\ (build = "debug") => (ret[e].st \in {"none", "abort"})
                    /\ (build = "release") =>
                          /\ ret[e].st # "abort"
                          /\ (ret[e].st = "done") =>
                                (ret[e].val = [j \in 1..I64Limbs |-> MathSum[j]])
        /\ \A e, f \in ProbeEntries :
              ((ret[e].st = "done") /\ (ret[f].st = "done")) => (ret[e].val = ret[f].val)

\* both entry points returned for (i64::MAX - 1) + 1
C7_Witness ==
    /\ family = "probe"
    /\ x = <<65534, 65535, 65535, 32767>>
    /\ y = <<1, 0, 0, 0>>
    /\ \A e \in ProbeEntries :
          (ret[e].st = "done") /\ (ret[e].val = <<65535, 65535, 65535, 32767>>)

(***************************************************************************)
(* C8: no kernel touches a cell at an index >= len: a masking kernel reads *)
(* and writes only bytes 0..len-1, a modular-add kernel leaves b as it was *)
(* and reads and writes only cells 0..len-1, a only being written.         *)
(***************************************************************************)
C8_Frame ==
    /\ MaskNonNull =>
          \A j \in DOMAIN mem : (j >= len) => ((nx[j] = 0) /\ (mem[j] = B[j]))
    /\ PolyNonNull =>
          /\ b = b0
          /\ \A t \in acc :
                /\ t[2] \in 0..(len - 1)
                /\ (t[3] = "w") => (t[1] = "a")
          /\ \A j \in DOMAIN a : (j >= len) => (a[j] = a0[j])

\* the vector masking kernel returned from a misaligned 33-byte view: one
\* block and one tail byte, each byte of the view touched
C8_Witness ==
    /\ MaskNonNull /\ (len = 33) /\ ((ptr % 8) = 1)
    /\ (pc = "idle") /\ (hist = <<"process_vector_avx2">>)
    /\ \A j \in 0..(len - 1) : nx[j] = 1

(***************************************************************************)
(* C9: swar_process_secure_vector splits [0, len) into a head of           *)
(* h = min(len, (8 - addr mod 8) mod 8) single bytes, floor((len - h) / 8) *)
(* words that start, when there is one, at an address divisible by 8 and   *)
(* are XORed with the key in all eight byte lanes, and a tail of fewer     *)
(* than 8 single bytes; each byte is XORed exactly once, len - offset does *)
(* not underflow, and a view shorter than 8 bytes has no word.             *)
(***************************************************************************)
C9_SwarPartition ==
    MaskNonNull =>
        LET h == IF len < ((8 - (ptr % 8)) % 8) THEN len ELSE (8 - (ptr % 8)) % 8
            Once(n) == \A j \in DOMAIN nx : nx[j] = IF j < n THEN 1 ELSE 0
        IN  /\ (pc = "swar_head") => ((off <= h) /\ Once(off))
            /\ (pc = "swar_words") =>
                  /\ (off = h) /\ (off <= len)
                  /\ len64 = (len - h) \div 8
                  /\ chunk <= len64
                  /\ (len64 > 0) => (((ptr + off) % 8) = 0)
                  /\ (len < 8) => (len64 = 0)
                  /\ to_le_bytes(key64(key)) = [j \in 1..8 |-> key]
                  /\ Once(h + (8 * chunk))
            /\ (pc = "swar_tail") =>
                  /\ (off >= h + (8 * len64)) /\ (off <= len)
                  /\ (len - (h + (8 * len64))) < 8
                  /\ Once(off)
            /\ ((pc = "idle") /\ (LastCall = "swar_process_secure_vector")) =>
                  /\ Once(len)
                  /\ (Len(hist) = 1) => (mem = Xored(B, key, len))
            /\ ((pc = "abort") /\ (hist = << >>)) =>
                  (Once(len) /\ (mem = Xored(B, key, len)))

\* the last tail byte of a 35-byte view that starts 3 past a word boundary:
\* 5 head bytes, 3 words, 6 tail bytes
C9_Witness ==
    /\ MaskNonNull /\ (len = 35) /\ ((ptr % 8) = 3)
    /\ (pc = "swar_tail") /\ (len64 = 3) /\ (off = len - 1)

(***************************************************************************)
(* C10: for every non-null input each kernel's loops finish and the call   *)
(* returns: the SWAR head loop makes at most 7 iterations, a vector block  *)
(* loop leaves fewer than 32 bytes or 8 elements, a running kernel always  *)
(* has a next step and none ends other than by returning.                  *)
(***************************************************************************)
C10_Terminates ==
    (MaskNonNull \/ PolyNonNull) =>
        /\ pc # "abort"
        /\ (pc # "idle") => ENABLED Next
        /\ off <= len
        /\ (pc = "swar_head") => (off <= 7)
        /\ (pc = "avx2_tail") => ((len - off) < 32)
        /\ (pc = "padd_tail") => ((len - off) < 8)

\* what does hold: a running kernel always has a next step, and its loops
\* stay within their bounds
LoopsProgress ==
    (MaskNonNull \/ PolyNonNull) =>
        /\ (pc \notin {"idle", "abort"}) => ENABLED Next
        /\ off <= len
        /\ (pc = "swar_head") => (off <= 7)
        /\ (pc = "avx2_tail") => ((len - off) < 32)
        /\ (pc = "padd_tail") => ((len - off) < 8)

====
